---- MODULE Spec2Model ----
(***************************************************************************)
(* DominioExplorer: the React component App (src/App.tsx), its filter      *)
(* panel (src/components/FilterPanel.tsx) and the semantic expansion       *)
(* service (src/unnamed/part_000, imported as ./services/geminiService).   *)
(*                                                                         *)
(* A JavaScript string is a sequence of one-character strings, so that     *)
(* length, startsWith, endsWith, includes, trim, toLowerCase and split are *)
(* computed as the runtime computes them.                                  *)
(*                                                                         *)
(* React scheduling, as modelled: an event handler runs to completion and  *)
(* leaves a render pending; a render commits a snapshot of the state       *)
(* (`rendered`: what the DOM shows and what the handlers' closures hold);  *)
(* the passive effect of useEffect(..., [filters]) runs after the commit   *)
(* of a render that saw a new `filters` object, and before the next        *)
(* render; a user event is dispatched only when no render and no effect    *)
(* is pending.  Completions of asynchronous work (fetch, FileReader, the   *)
(* expansion request) may arrive at any time.                              *)
(***************************************************************************)
EXTENDS Integers, Sequences, FiniteSets, TLC

\* ------------------------------------------------------------ bounds
\* At most this many expansion requests are in flight at once.
MaxRequests == 2
\* At most this many FileReader loads are in flight at once.
MaxReaders == 2
\* App.tsx:33 sets itemsPerPage to 100 and nothing changes it; the model
\* scales the page size down so that a corpus of a few domains has several
\* pages.
ItemsPerPage == 2
\* The Next control is not followed past this page.
MaxPage == 3
\* Inputs of the paginator's own specification.
MaxPageSize == 3
MaxPageInput == 4

\* ------------------------------------------------------------ strings
UpperChars == <<"A","B","C","D","E","F","G","H","I","J","K","L","M",
                "N","O","P","Q","R","S","T","U","V","W","X","Y","Z">>
LowerChars == <<"a","b","c","d","e","f","g","h","i","j","k","l","m",
                "n","o","p","q","r","s","t","u","v","w","x","y","z">>
DigitChars == {"0","1","2","3","4","5","6","7","8","9"}
WhiteSpaceChars == {" ", "\t", "\r", "\n"}

\* String.prototype.toLowerCase, one character.
ToLowerChar(c) ==
    IF \E i \in 1..26 : UpperChars[i] = c
    THEN LowerChars[CHOOSE i \in 1..26 : UpperChars[i] = c]
    ELSE c

\* String.prototype.toLowerCase.
ToLowerCase(s) == [i \in 1..Len(s) |-> ToLowerChar(s[i])]

\* String.prototype.trim: drops leading and trailing white space.
RECURSIVE TrimStart(_)
TrimStart(s) ==
    IF s /= <<>> /\ Head(s) \in WhiteSpaceChars THEN TrimStart(Tail(s)) ELSE s

RECURSIVE TrimEnd(_)
TrimEnd(s) ==
    IF s /= <<>> /\ s[Len(s)] \in WhiteSpaceChars
    THEN TrimEnd(SubSeq(s, 1, Len(s) - 1))
    ELSE s

Trim(s) == TrimEnd(TrimStart(s))

\* String.prototype.split('\n'): the pieces between the newlines; a text
\* without newline is one piece, the empty text is one empty piece.
RECURSIVE SplitLines(_, _)
SplitLines(text, cur) ==
    IF text = <<>> THEN <<cur>>
    ELSE IF Head(text) = "\n" THEN <<cur>> \o SplitLines(Tail(text), <<>>)
    ELSE SplitLines(Tail(text), Append(cur, Head(text)))

\* String.prototype.startsWith.
StartsWith(d, p) == Len(p) <= Len(d) /\ SubSeq(d, 1, Len(p)) = p

\* String.prototype.endsWith.
EndsWith(d, p) == Len(p) <= Len(d) /\ SubSeq(d, Len(d) - Len(p) + 1, Len(d)) = p

\* String.prototype.includes.
Includes(d, k) ==
    \E i \in 0..(Len(d) - Len(k)) : SubSeq(d, i + 1, i + Len(k)) = k

\* /\d/.test(d)
HasDigit(d) == \E i \in 1..Len(d) : d[i] \in DigitChars

\* Array.prototype.includes
ArrayIncludes(a, x) == \E i \in 1..Len(a) : a[i] = x

\* Array.prototype.slice(start, end): a negative index counts from the end,
\* both are clamped to 0..length, and the result is empty when start >= end.
SliceIndex(n, len) ==
    IF n < 0 THEN (IF len + n < 0 THEN 0 ELSE len + n)
    ELSE (IF n > len THEN len ELSE n)

Slice(a, start, end) ==
    LET from == SliceIndex(start, Len(a))
        to   == SliceIndex(end, Len(a))
    IN IF from >= to THEN <<>> ELSE SubSeq(a, from + 1, to)

\* Math.ceil(a / b) for a >= 0, b > 0.
Ceil(a, b) == (a + b - 1) \div b

ComBr == <<".","c","o","m",".","b","r">>

\* ------------------------------------------------------------ ingestion
\* A faulty variant of NormalizeLines: the lines are not trimmed.
NormalizeLinesUntrimmed(text) ==
    LET lines == SplitLines(text, <<>>)
        mapped == [i \in 1..Len(lines) |-> ToLowerCase(lines[i])]
    IN SelectSeq(mapped, LAMBDA d : Len(d) > 0)

\* text.split('\n').map(d => d.trim().toLowerCase()).filter(d => d.length > 0)
NormalizeLines(text) ==
    LET lines == SplitLines(text, <<>>)
        mapped == [i \in 1..Len(lines) |-> ToLowerCase(Trim(lines[i]))]
    IN SelectSeq(mapped, LAMBDA d : Len(d) > 0)

\* ------------------------------------------------------------ filter engine
\* App.tsx:126  1. Length
FilterLength(result, f) ==
    SelectSeq(result, LAMBDA d : Len(d) >= f.minLength /\ Len(d) <= f.maxLength)

\* App.tsx:129-133  2. Extension
FilterExtension(result, f) ==
    IF f.extension = "com.br" THEN SelectSeq(result, LAMBDA d : EndsWith(d, ComBr))
    ELSE IF f.extension = "others" THEN SelectSeq(result, LAMBDA d : ~EndsWith(d, ComBr))
    ELSE result

\* App.tsx:136-140  3. Numbers
FilterNumbers(result, f) ==
    IF f.hasNumbers = "yes" THEN SelectSeq(result, LAMBDA d : HasDigit(d))
    ELSE IF f.hasNumbers = "no" THEN SelectSeq(result, LAMBDA d : ~HasDigit(d))
    ELSE result

\* App.tsx:143-145  4. Starts With (Prefix); an empty string is falsy
FilterStartsWith(result, f) ==
    IF f.startsWith /= <<>>
    THEN SelectSeq(result, LAMBDA d : StartsWith(d, f.startsWith))
    ELSE result

\* App.tsx:148-150  5. First Letter
FilterFirstLetter(result, f) ==
    IF f.firstLetter /= <<>>
    THEN SelectSeq(result, LAMBDA d : StartsWith(d, f.firstLetter))
    ELSE result

\* A faulty variant of FilterKeywords: the free-text term is applied as well when
\* keywords are active (`if` in place of `else if`).
FilterKeywordsAlsoTerm(result, f) ==
    LET byKeywords ==
            IF Len(f.semanticKeywords) > 0
            THEN SelectSeq(result, LAMBDA d :
                     \E i \in 1..Len(f.semanticKeywords) : Includes(d, f.semanticKeywords[i]))
            ELSE result
    IN IF f.searchTerm /= <<>>
       THEN SelectSeq(byKeywords, LAMBDA d : Includes(d, f.searchTerm))
       ELSE byKeywords

\* App.tsx:153-159  6. Semantic/Keyword Search
FilterKeywords(result, f) ==
    IF Len(f.semanticKeywords) > 0
    THEN SelectSeq(result, LAMBDA d :
             \E i \in 1..Len(f.semanticKeywords) : Includes(d, f.semanticKeywords[i]))
    ELSE IF f.searchTerm /= <<>>
    THEN SelectSeq(result, LAMBDA d : Includes(d, f.searchTerm))
    ELSE result

\* App.tsx:122-162  the useMemo over [rawDomains, filters]
FilteredDomains(raw, f) ==
    FilterKeywords(
      FilterFirstLetter(
        FilterStartsWith(
          FilterNumbers(
            FilterExtension(
              FilterLength(raw, f), f), f), f), f), f)

\* ------------------------------------------------------------ paginator
\* A faulty variant of PaginatedDomains: the slice starts one page too far.
PaginatedDomainsOffByOne(filtered, p) ==
    LET start == p.currentPage * p.itemsPerPage
    IN Slice(filtered, start, start + p.itemsPerPage)

\* App.tsx:189-192
PaginatedDomains(filtered, p) ==
    LET start == (p.currentPage - 1) * p.itemsPerPage
    IN Slice(filtered, start, start + p.itemsPerPage)

\* A faulty variant of TotalPages: never below 1.
TotalPagesAtLeastOne(filtered, p) ==
    IF Len(filtered) = 0 THEN 1 ELSE Ceil(Len(filtered), p.itemsPerPage)

\* App.tsx:194
TotalPages(filtered, p) == Ceil(Len(filtered), p.itemsPerPage)

\* ------------------------------------------------------------ selection
\* A JavaScript Set keeps insertion order: a sequence without repetition.
SetHas(set, x) == \E i \in 1..Len(set) : set[i] = x
SetDelete(set, x) == SelectSeq(set, LAMBDA y : y /= x)
SetAdd(set, x) == IF SetHas(set, x) THEN set ELSE Append(set, x)
SetSize(set) == Len(set)
Members(set) == {set[i] : i \in 1..Len(set)}

\* A faulty variant of ToggleSelection: a toggle only ever adds.
ToggleSelectionAddOnly(prev, domain) == SetAdd(prev, domain)

\* App.tsx:87-97  the updater passed to setSelectedDomains
ToggleSelection(prev, domain) ==
    IF SetHas(prev, domain) THEN SetDelete(prev, domain) ELSE SetAdd(prev, domain)

\* A faulty variant of ClearSelectionResult: the answer of confirm() is ignored.
ClearSelectionUnconfirmed(prev, confirmed) == <<>>

\* App.tsx:115-119
ClearSelectionResult(prev, confirmed) == IF confirmed THEN <<>> ELSE prev

\* Array.prototype.join('\n')
RECURSIVE JoinLines(_)
JoinLines(a) ==
    IF a = <<>> THEN <<>>
    ELSE IF Len(a) = 1 THEN a[1]
    ELSE a[1] \o <<"\n">> \o JoinLines(Tail(a))

\* App.tsx:102  Array.from(selectedDomains).join('\n')
ExportContent(set) == JoinLines(set)

\* ------------------------------------------------------------ expansion
\* userQuery.toLowerCase().replace(/[^a-z0-9]/g, '')
Sanitize(q) ==
    SelectSeq(ToLowerCase(q),
              LAMBDA c : c \in DigitChars \/ (\E i \in 1..26 : LowerChars[i] = c))

\* part_000:5-53.  `answer` is what the remote model does: "error" (the call
\* or JSON.parse throws), "empty" (no response text), "other" (JSON that is
\* no array: keywords.includes throws or Array.isArray fails), or "array"
\* with the parsed list.
GenerateSemanticKeywords(userQuery, hasKey, answer) ==
    IF ~hasKey THEN <<userQuery>>
    ELSE IF answer.kind \in {"error", "empty", "other"} THEN <<userQuery>>
    ELSE LET sanitizedOriginal == Sanitize(userQuery)
         IN IF sanitizedOriginal /= <<>> /\ ~ArrayIncludes(answer.value, sanitizedOriginal)
            THEN <<sanitizedOriginal>> \o answer.value
            ELSE answer.value

\* ------------------------------------------------------------ inputs
\* parseInt of an <input type="number"> value: the leading digits, or NaN.
RECURSIVE DigitsValue(_, _)
DigitsValue(s, acc) ==
    IF s = <<>> \/ Head(s) \notin DigitChars THEN acc
    ELSE LET digits == <<"0","1","2","3","4","5","6","7","8","9">>
         IN DigitsValue(Tail(s),
                acc * 10 + (CHOOSE n \in 0..9 : digits[n + 1] = Head(s)))

\* The result is [nan |-> TRUE] or [nan |-> FALSE, value |-> n].
ParseInt(s) ==
    LET t == TrimStart(s)
    IN IF t = <<>> \/ Head(t) \notin DigitChars
       THEN [nan |-> TRUE, value |-> 0]
       ELSE [nan |-> FALSE, value |-> DigitsValue(t, 0)]

\* `parseInt(e.target.value) || dflt` (FilterPanel.tsx:55, 65): NaN and 0 are falsy.
ParseIntOr(s, dflt) ==
    LET n == ParseInt(s) IN IF n.nan \/ n.value = 0 THEN dflt ELSE n.value

\* App.tsx:20-29 (and the literal of "Limpar todos os filtros", 445-454)
DefaultFilters ==
    [minLength |-> 2, maxLength |-> 26, startsWith |-> <<>>, hasNumbers |-> "all",
     extension |-> "all", firstLetter |-> <<>>, searchTerm |-> <<>>,
     semanticKeywords |-> <<>>]

\* What the corpus source or an uploaded file may hold.
Text1 == <<" ","A","b",".","c","o","m",".","b","r","\n",
           "\n",
           "x","y",".","n","e","t","\n",
           "a","1",".","n","e","t","\r","\n">>
Text2 == <<"X","9",".","n","e","t">>
Texts == {Text1, Text2}

\* What the user types into the semantic search box.
Queries == {<<>>, <<" ">>, <<"A"," ","b">>}

\* What the remote model answers.
Answers == {[kind |-> "error", value |-> <<>>],
            [kind |-> "array", value |-> <<<<"n","e","t">>>>]}

\* The values the filter panel's controls send to handleInputChange.
MinLengthInputs == {<<>>, <<"7">>}
MaxLengthInputs == {<<"0">>}
ExtensionInputs == {"all", "others"}
HasNumbersInputs == {"all"}
StartsWithInputs == {<<>>}
FirstLetterInputs == {<<>>}

PanelChanges ==
    {<<"minLength", ParseIntOr(v, 2)>> : v \in MinLengthInputs}
    \cup {<<"maxLength", ParseIntOr(v, 26)>> : v \in MaxLengthInputs}
    \cup {<<"extension", v>> : v \in ExtensionInputs}
    \cup {<<"hasNumbers", v>> : v \in HasNumbersInputs}
    \cup {<<"startsWith", ToLowerCase(v)>> : v \in StartsWithInputs}
    \cup {<<"firstLetter", v>> : v \in FirstLetterInputs}

\* ------------------------------------------------------------ statistics
\* String.prototype.toUpperCase, one character.
ToUpperChar(c) ==
    IF \E i \in 1..26 : LowerChars[i] = c
    THEN UpperChars[CHOOSE i \in 1..26 : LowerChars[i] = c]
    ELSE c

\* d.charAt(0).toUpperCase(): the empty string for the empty string.
FirstUpper(d) == IF d = <<>> THEN <<>> ELSE <<ToUpperChar(d[1])>>

\* Number.prototype.toString for an integer n >= 0.
RECURSIVE NumberToString(_)
NumberToString(n) ==
    LET digits == <<"0","1","2","3","4","5","6","7","8","9">>
    IN IF n < 10 THEN <<digits[n + 1]>>
       ELSE NumberToString(n \div 10) \o <<digits[(n % 10) + 1]>>

\* A JavaScript Map keeps insertion order: a sequence of entries.
MapHas(map, key) == \E i \in 1..Len(map) : map[i].name = key

\* A faulty variant of MapIncrement: a key seen again starts over at 1.
MapIncrementOverwrites(map, key) ==
    IF MapHas(map, key)
    THEN [i \in 1..Len(map) |->
             IF map[i].name = key THEN [map[i] EXCEPT !.value = 1] ELSE map[i]]
    ELSE Append(map, [name |-> key, value |-> 1])

\* App.tsx:171, 174  map.set(key, (map.get(key) || 0) + 1)
MapIncrement(map, key) ==
    IF MapHas(map, key)
    THEN [i \in 1..Len(map) |->
             IF map[i].name = key THEN [map[i] EXCEPT !.value = @ + 1] ELSE map[i]]
    ELSE Append(map, [name |-> key, value |-> 1])

\* App.tsx:169-171  byLengthMap after the forEach, keyed by the number.
RECURSIVE ByLengthMap(_, _)
ByLengthMap(filtered, map) ==
    IF filtered = <<>> THEN map
    ELSE ByLengthMap(Tail(filtered), MapIncrement(map, Len(Head(filtered))))

\* App.tsx:173-174  byLetterMap after the forEach; `if (first)` skips the
\* empty string.
RECURSIVE ByLetterMap(_, _)
ByLetterMap(filtered, map) ==
    IF filtered = <<>> THEN map
    ELSE LET first == FirstUpper(Head(filtered))
         IN ByLetterMap(Tail(filtered),
                        IF first /= <<>> THEN MapIncrement(map, first) ELSE map)

\* Array.prototype.sort with a comparator that compares keys[i] and keys[j],
\* the sort keys of entries[i] and entries[j]; the keys of a Map's entries
\* are distinct, so the entry at position p is the one with p - 1 smaller keys.
SortByKey(entries, keys) ==
    [p \in 1..Len(entries) |->
        entries[CHOOSE i \in 1..Len(entries) :
                   Cardinality({j \in 1..Len(entries) : keys[j] < keys[i]}) = p - 1]]

\* localeCompare on one-character names: punctuation, digits, letters.
CollationOrder ==
    <<"-", ".", "0","1","2","3","4","5","6","7","8","9">> \o UpperChars
CollationRank(name) == CHOOSE i \in 1..Len(CollationOrder) : CollationOrder[i] = name[1]

\* App.tsx:177-185
Stats(filtered) ==
    LET byLength == [i \in 1..Len(ByLengthMap(filtered, <<>>)) |->
                        [name |-> NumberToString(ByLengthMap(filtered, <<>>)[i].name),
                         value |-> ByLengthMap(filtered, <<>>)[i].value]]
        byLetter == ByLetterMap(filtered, <<>>)
    IN [total |-> Len(filtered),
        byLength |-> SortByKey(byLength,
                        [i \in 1..Len(byLength) |-> ParseInt(byLength[i].name).value]),
        byLetter |-> SortByKey(byLetter,
                        [i \in 1..Len(byLetter) |-> CollationRank(byLetter[i].name)])]

\* ------------------------------------------------------------ state
VARIABLES
    rawDomains,       \* App.tsx:9
    loading,          \* App.tsx:10
    error,            \* App.tsx:11; TRUE: a message is set, FALSE: null
    selectedDomains,  \* App.tsx:14
    semanticQuery,    \* App.tsx:17
    isThinking,       \* App.tsx:18
    filters,          \* App.tsx:20
    pagination,       \* App.tsx:31
    hasKey,           \* part_000:3; whether process.env.API_KEY is non-empty
    fetchPending,     \* the fetch of App.tsx:41 has not settled
    requests,         \* expansion requests in flight, in issue order
    readers,          \* FileReader loads in flight (App.tsx:206-215)
    rendered,         \* the state snapshot of the last committed render
    renderPending,    \* a setState has been called since the last render
    filtersChanged,   \* `filters` is a new object since the last render
    effectPending,    \* the effect of App.tsx:196-198 is scheduled
    cfgChanged,       \* history: setFilters was called and no user event handled since
    latestIssued      \* history: the keywords the latest-issued request yields, if
                      \* any, and whether the keywords were cleared since the last search

vars == <<rawDomains, loading, error, selectedDomains, semanticQuery, isThinking,
          filters, pagination, hasKey, fetchPending, requests, readers, rendered,
          renderPending, filtersChanged, effectPending, cfgChanged, latestIssued>>

Snapshot ==
    [rawDomains |-> rawDomains, loading |-> loading, error |-> error,
     selectedDomains |-> selectedDomains, semanticQuery |-> semanticQuery,
     isThinking |-> isThinking, filters |-> filters, pagination |-> pagination]

\* ------------------------------------------------------------ the rendered view
ViewFiltered == FilteredDomains(rendered.rawDomains, rendered.filters)
ViewPage == PaginatedDomains(ViewFiltered, rendered.pagination)
ViewTotalPages == TotalPages(ViewFiltered, rendered.pagination)
\* App.tsx:165-186
ViewStats == Stats(ViewFiltered)
\* App.tsx:324
ShowResults == ~rendered.loading /\ ~rendered.error /\ Len(ViewFiltered) > 0
\* App.tsx:304
ShowError == rendered.error
\* App.tsx:438
ShowEmpty == ~rendered.loading /\ Len(ViewFiltered) = 0 /\ ~rendered.error
\* App.tsx:286
ShowKeywords == Len(rendered.filters.semanticKeywords) > 0
\* App.tsx:467
ShowSelectionBar == SetSize(rendered.selectedDomains) > 0
\* App.tsx:278
SearchButtonEnabled == ~rendered.isThinking /\ rendered.semanticQuery /= <<>>
\* App.tsx:340, 408
PrevEnabled == rendered.pagination.currentPage /= 1
\* App.tsx:353, 418
NextEnabled == rendered.pagination.currentPage /= ViewTotalPages

\* No render and no effect is pending: a user event can be dispatched.
Quiescent == ~renderPending /\ ~effectPending

\* ------------------------------------------------------------ initial state
NoneIssued == [some |-> FALSE, keywords |-> <<>>, cleared |-> FALSE]
\* The keywords were cleared and no search was made since.
KeywordsCleared == [some |-> FALSE, keywords |-> <<>>, cleared |-> TRUE]

\* After the mount: the first render is committed, fetchData is running.
Init ==
    /\ rawDomains = <<>>
    /\ loading = TRUE
    /\ error = FALSE
    /\ selectedDomains = <<>>
    /\ semanticQuery = <<>>
    /\ isThinking = FALSE
    /\ filters = DefaultFilters
    /\ pagination = [currentPage |-> 1, itemsPerPage |-> ItemsPerPage]
    /\ hasKey \in BOOLEAN
    /\ fetchPending = TRUE
    /\ requests = <<>>
    /\ readers = <<>>
    /\ rendered = Snapshot
    /\ renderPending = FALSE
    /\ filtersChanged = FALSE
    /\ effectPending = FALSE
    /\ cfgChanged = FALSE
    /\ latestIssued = NoneIssued

RemoveAt(q, i) == SubSeq(q, 1, i - 1) \o SubSeq(q, i + 1, Len(q))

\* Bookkeeping of a handler that calls setFilters.
SetsFilters == /\ renderPending' = TRUE
               /\ filtersChanged' = TRUE
               /\ UNCHANGED effectPending

\* Bookkeeping of a handler that sets other state only.
SetsState == /\ renderPending' = TRUE
             /\ UNCHANGED <<filtersChanged, effectPending>>

UserEventOnFilters == cfgChanged' = TRUE
UserEventElsewhere == cfgChanged' = FALSE

\* ------------------------------------------------------------ corpus load
\* App.tsx:45-51, 56: the fetch answered ok with `text`.
FetchSucceeds(text) ==
    /\ fetchPending
    /\ fetchPending' = FALSE
    /\ rawDomains' = NormalizeLines(text)
    /\ error' = FALSE
    /\ loading' = FALSE
    /\ SetsState
    /\ UNCHANGED <<selectedDomains, semanticQuery, isThinking, filters, pagination,
                   hasKey, requests, readers, rendered, cfgChanged, latestIssued>>

\* A faulty variant of FetchFails: the `finally` of App.tsx:55-57 is missing.
FetchFailsKeepsLoading ==
    /\ fetchPending
    /\ fetchPending' = FALSE
    /\ error' = TRUE
    /\ SetsState
    /\ UNCHANGED <<rawDomains, loading, selectedDomains, semanticQuery, isThinking,
                   filters, pagination, hasKey, requests, readers, rendered, cfgChanged,
                   latestIssued>>

\* App.tsx:43, 52-56: the fetch failed or answered not ok.
FetchFails ==
    /\ fetchPending
    /\ fetchPending' = FALSE
    /\ error' = TRUE
    /\ loading' = FALSE
    /\ SetsState
    /\ UNCHANGED <<rawDomains, selectedDomains, semanticQuery, isThinking, filters,
                   pagination, hasKey, requests, readers, rendered, cfgChanged, latestIssued>>

\* App.tsx:202-206, 215: a file is chosen in the error panel; reading starts.
HandleFileUpload(text) ==
    /\ Quiescent
    /\ ShowError
    /\ Len(readers) < MaxReaders
    /\ readers' = Append(readers, text)
    /\ UserEventElsewhere
    /\ UNCHANGED <<rawDomains, loading, error, selectedDomains, semanticQuery,
                   isThinking, filters, pagination, hasKey, fetchPending, requests,
                   rendered, renderPending, filtersChanged, effectPending, latestIssued>>

\* App.tsx:207-214: reader.onload
ReaderOnload(i) ==
    /\ i \in 1..Len(readers)
    /\ readers' = RemoveAt(readers, i)
    /\ rawDomains' = NormalizeLines(readers[i])
    /\ error' = FALSE
    /\ SetsState
    /\ UNCHANGED <<loading, selectedDomains, semanticQuery, isThinking, filters,
                   pagination, hasKey, fetchPending, requests, rendered, cfgChanged,
                   latestIssued>>

\* App.tsx:204: the file dialog was dismissed, no file.
HandleFileUploadNoFile ==
    /\ Quiescent
    /\ ShowError
    /\ UserEventElsewhere
    /\ UNCHANGED <<rawDomains, loading, error, selectedDomains, semanticQuery,
                   isThinking, filters, pagination, hasKey, fetchPending, requests,
                   readers, rendered, renderPending, filtersChanged, effectPending,
                   latestIssued>>

\* ------------------------------------------------------------ semantic search
\* App.tsx:270
SetSemanticQuery(q) ==
    /\ Quiescent
    /\ semanticQuery' = q
    /\ SetsState
    /\ UserEventElsewhere
    /\ UNCHANGED <<rawDomains, loading, error, selectedDomains, isThinking, filters,
                   pagination, hasKey, fetchPending, requests, readers, rendered,
                   latestIssued>>

\* App.tsx:65-68: the query is blank.
SearchBlank ==
    /\ Trim(rendered.semanticQuery) = <<>>
    /\ filters' = [filters EXCEPT !.semanticKeywords = <<>>]
    /\ latestIssued' = NoneIssued
    /\ SetsFilters
    /\ UserEventOnFilters
    /\ UNCHANGED <<rawDomains, loading, error, selectedDomains, semanticQuery,
                   isThinking, pagination, hasKey, fetchPending, requests, readers,
                   rendered>>

\* App.tsx:70-78 with part_000:6-9: without a key the promise is already
\* settled, and the continuation runs before any other event.
SearchWithoutKey ==
    /\ Trim(rendered.semanticQuery) /= <<>>
    /\ ~hasKey
    /\ filters' = [filters EXCEPT !.semanticKeywords =
                      GenerateSemanticKeywords(rendered.semanticQuery, FALSE,
                                               [kind |-> "error", value |-> <<>>])]
    /\ isThinking' = FALSE
    /\ latestIssued' = NoneIssued
    /\ SetsFilters
    /\ UserEventOnFilters
    /\ UNCHANGED <<rawDomains, loading, error, selectedDomains, semanticQuery,
                   pagination, hasKey, fetchPending, requests, readers, rendered>>

\* App.tsx:70-72: the request is sent; `answer` is what will come back.
SearchIssue(answer) ==
    /\ Trim(rendered.semanticQuery) /= <<>>
    /\ hasKey
    /\ Len(requests) < MaxRequests
    /\ isThinking' = TRUE
    /\ requests' = Append(requests, [query |-> rendered.semanticQuery, answer |-> answer])
    /\ latestIssued' = [some |-> TRUE,
                        keywords |-> GenerateSemanticKeywords(rendered.semanticQuery, TRUE, answer),
                        cleared |-> FALSE]
    /\ SetsState
    /\ UserEventElsewhere
    /\ UNCHANGED <<rawDomains, loading, error, selectedDomains, semanticQuery, filters,
                   pagination, hasKey, fetchPending, readers, rendered>>

\* App.tsx:64-79
HandleSemanticSearch ==
    \/ SearchBlank
    \/ SearchWithoutKey
    \/ \E answer \in Answers : SearchIssue(answer)

\* App.tsx:271: Enter in the input, whatever isThinking is.
SemanticSearchEnter == Quiescent /\ HandleSemanticSearch

\* App.tsx:276-278: the button, disabled while thinking or with an empty input.
SemanticSearchClick == Quiescent /\ SearchButtonEnabled /\ HandleSemanticSearch

\* App.tsx:72-77: the response of request i arrives.
ExpansionResponse(i) ==
    /\ i \in 1..Len(requests)
    /\ filters' = [filters EXCEPT !.semanticKeywords =
                      GenerateSemanticKeywords(requests[i].query, hasKey, requests[i].answer)]
    /\ isThinking' = FALSE
    /\ requests' = RemoveAt(requests, i)
    /\ cfgChanged' = TRUE
    /\ SetsFilters
    /\ UNCHANGED <<rawDomains, loading, error, selectedDomains, semanticQuery,
                   pagination, hasKey, fetchPending, readers, rendered, 
                   latestIssued>>

\* App.tsx:81-84, offered at 294 while keywords are shown.
HandleClearSemantic ==
    /\ Quiescent
    /\ ShowKeywords
    /\ semanticQuery' = <<>>
    /\ filters' = [filters EXCEPT !.semanticKeywords = <<>>]
    /\ latestIssued' = KeywordsCleared
    /\ SetsFilters
    /\ UserEventOnFilters
    /\ UNCHANGED <<rawDomains, loading, error, selectedDomains, isThinking, pagination,
                   hasKey, fetchPending, requests, readers, rendered>>

\* App.tsx:443-460: "Limpar todos os filtros"
ClearAllFilters ==
    /\ Quiescent
    /\ ShowEmpty
    /\ filters' = DefaultFilters
    /\ semanticQuery' = <<>>
    /\ latestIssued' = KeywordsCleared
    /\ SetsFilters
    /\ UserEventOnFilters
    /\ UNCHANGED <<rawDomains, loading, error, selectedDomains, isThinking, pagination,
                   hasKey, fetchPending, requests, readers, rendered>>

\* ------------------------------------------------------------ filter panel
\* FilterPanel.tsx:14-16
HandleInputChange(key, value) ==
    /\ Quiescent
    /\ filters' = [filters EXCEPT ![key] = value]
    /\ SetsFilters
    /\ UserEventOnFilters
    /\ UNCHANGED <<rawDomains, loading, error, selectedDomains, semanticQuery,
                   isThinking, pagination, hasKey, fetchPending, requests, readers,
                   rendered, latestIssued>>

\* ------------------------------------------------------------ pagination
\* App.tsx:339-348, 407-416: "Anterior"
PreviousPage ==
    /\ Quiescent
    /\ ShowResults
    /\ PrevEnabled
    /\ pagination' = [pagination EXCEPT !.currentPage = pagination.currentPage - 1]
    /\ SetsState
    /\ UserEventElsewhere
    /\ UNCHANGED <<rawDomains, loading, error, selectedDomains, semanticQuery,
                   isThinking, filters, hasKey, fetchPending, requests, readers,
                   rendered, latestIssued>>

\* App.tsx:352-361, 417-426: "Proxima"
NextPage ==
    /\ Quiescent
    /\ ShowResults
    /\ NextEnabled
    /\ pagination.currentPage < MaxPage
    /\ pagination' = [pagination EXCEPT !.currentPage = pagination.currentPage + 1]
    /\ SetsState
    /\ UserEventElsewhere
    /\ UNCHANGED <<rawDomains, loading, error, selectedDomains, semanticQuery,
                   isThinking, filters, hasKey, fetchPending, requests, readers,
                   rendered, latestIssued>>

\* A faulty variant of PageResetEffect: the effect leaves the page alone.
PageResetEffectKeepsPage(prev) == prev

\* App.tsx:197: the updater passed to setPagination
PageResetEffect(prev) == [prev EXCEPT !.currentPage = 1]

\* ------------------------------------------------------------ selection
\* App.tsx:372: a card of the displayed page is clicked.
ToggleSelectionClick(domain) ==
    /\ Quiescent
    /\ ShowResults
    /\ ArrayIncludes(ViewPage, domain)
    /\ selectedDomains' = ToggleSelection(selectedDomains, domain)
    /\ SetsState
    /\ UserEventElsewhere
    /\ UNCHANGED <<rawDomains, loading, error, semanticQuery, isThinking, filters,
                   pagination, hasKey, fetchPending, requests, readers, rendered,
                   latestIssued>>

\* App.tsx:115-119, offered at 477-483; `confirmed` is the answer of confirm().
ClearSelection(confirmed) ==
    /\ Quiescent
    /\ ShowSelectionBar
    /\ selectedDomains' = ClearSelectionResult(selectedDomains, confirmed)
    /\ IF confirmed THEN SetsState
       ELSE UNCHANGED <<renderPending, filtersChanged, effectPending>>
    /\ UserEventElsewhere
    /\ UNCHANGED <<rawDomains, loading, error, semanticQuery, isThinking, filters,
                   pagination, hasKey, fetchPending, requests, readers, rendered,
                   latestIssued>>

\* App.tsx:100-112, offered at 484-490: the blob goes to the export sink, no
\* state of the component changes.
DownloadSelectedList ==
    /\ Quiescent
    /\ ShowSelectionBar
    /\ SetSize(rendered.selectedDomains) /= 0
    /\ UserEventElsewhere
    /\ UNCHANGED <<rawDomains, loading, error, selectedDomains, semanticQuery,
                   isThinking, filters, pagination, hasKey, fetchPending, requests,
                   readers, rendered, renderPending, filtersChanged, effectPending,
                   latestIssued>>

\* ------------------------------------------------------------ React
\* A render: the component function runs on the current state and commits;
\* the effect of App.tsx:196-198 is scheduled when `filters` is a new object.
Render ==
    /\ renderPending
    /\ ~effectPending
    /\ rendered' = Snapshot
    /\ renderPending' = FALSE
    /\ effectPending' = filtersChanged
    /\ filtersChanged' = FALSE
    /\ UNCHANGED <<rawDomains, loading, error, selectedDomains, semanticQuery,
                   isThinking, filters, pagination, hasKey, fetchPending, requests,
                   readers, cfgChanged, latestIssued>>

\* App.tsx:196-198
RunPageResetEffect ==
    /\ effectPending
    /\ pagination' = PageResetEffect(pagination)
    /\ effectPending' = FALSE
    /\ renderPending' = TRUE
    /\ UNCHANGED <<rawDomains, loading, error, selectedDomains, semanticQuery,
                   isThinking, filters, hasKey, fetchPending, requests, readers,
                   rendered, filtersChanged, cfgChanged, latestIssued>>

\* ------------------------------------------------------------ specification
Next ==
    \/ \E text \in Texts : FetchSucceeds(text)
    \/ FetchFails
    \/ \E text \in Texts : HandleFileUpload(text)
    \/ HandleFileUploadNoFile
    \/ \E i \in 1..MaxReaders : ReaderOnload(i)
    \/ \E q \in Queries : SetSemanticQuery(q)
    \/ SemanticSearchEnter
    \/ SemanticSearchClick
    \/ \E i \in 1..MaxRequests : ExpansionResponse(i)
    \/ HandleClearSemantic
    \/ ClearAllFilters
    \/ \E c \in PanelChanges : HandleInputChange(c[1], c[2])
    \/ PreviousPage
    \/ NextPage
    \/ \E d \in Members(ViewPage) : ToggleSelectionClick(d)
    \/ \E confirmed \in BOOLEAN : ClearSelection(confirmed)
    \/ DownloadSelectedList
    \/ Render
    \/ RunPageResetEffect

Spec == Init /\ [][Next]_vars

\* ------------------------------------------------------------ the filter alone
\* The filter engine on drawn inputs: every corpus of FilterCorpora under
\* every configuration of FilterConfigs is rendered once.
FilterCorpora ==
    {<<>>,
     NormalizeLines(Text1),
     <<<<"a","b",".","c","o","m",".","b","r">>,
       <<"a","b","1","2",".","c","o","m",".","b","r">>,
       <<"x","y","z",".","n","e","t">>,
       <<"a","b",".","c","o","m",".","b","r">>,
       <<"b","i","g","s","h","o","p",".","n","e","t">> >>}

FilterConfigs ==
    [minLength : {2, 7, 10},
     maxLength : {26, 9, 6},
     startsWith : {<<>>, <<"a">>, <<"a","b">>, <<"x">>},
     hasNumbers : {"all", "yes", "no"},
     extension : {"all", "com.br", "others"},
     firstLetter : {<<>>, <<"a">>, <<"x">>},
     searchTerm : {<<>>, <<"b">>, <<"n","e","t">>},
     semanticKeywords : {<<>>, << <<"1">> >>, << <<"s","h","o","p">>, <<"b",".">> >>}]

RestIdle ==
    /\ loading = FALSE
    /\ error = FALSE
    /\ selectedDomains = <<>>
    /\ semanticQuery = <<>>
    /\ isThinking = FALSE
    /\ hasKey = FALSE
    /\ fetchPending = FALSE
    /\ requests = <<>>
    /\ readers = <<>>
    /\ rendered = [rawDomains |-> <<>>, loading |-> TRUE, error |-> FALSE,
                   selectedDomains |-> <<>>, semanticQuery |-> <<>>,
                   isThinking |-> FALSE, filters |-> DefaultFilters,
                   pagination |-> [currentPage |-> 1, itemsPerPage |-> ItemsPerPage]]
    /\ renderPending = TRUE
    /\ filtersChanged = FALSE
    /\ effectPending = FALSE
    /\ cfgChanged = FALSE
    /\ latestIssued = NoneIssued

InitFilter ==
    /\ rawDomains \in FilterCorpora
    /\ filters \in FilterConfigs
    /\ pagination = [currentPage |-> 1, itemsPerPage |-> ItemsPerPage]
    /\ RestIdle

NextFilter == Render

SpecFilter == InitFilter /\ [][NextFilter]_vars

\* ------------------------------------------------------------ the paginator alone
\* The paginator on drawn inputs: filtered sequences of every length up to
\* five, every page size up to MaxPageSize, every page number from
\* -MaxPageInput to MaxPageInput.
PageCorpus ==
    <<<<"a","b",".","c","o","m",".","b","r">>,
      <<"x","y",".","n","e","t">>,
      <<"a","1",".","n","e","t">>,
      <<"x","9",".","n","e","t">>,
      <<"a","b",".","c","o","m",".","b","r">> >>

InitPaginate ==
    /\ rawDomains \in {SubSeq(PageCorpus, 1, n) : n \in 0..Len(PageCorpus)}
    /\ filters = DefaultFilters
    /\ pagination \in [currentPage : (0 - MaxPageInput)..MaxPageInput,
                       itemsPerPage : 1..MaxPageSize]
    /\ RestIdle

NextPaginate == Render

SpecPaginate == InitPaginate /\ [][NextPaginate]_vars

\* ------------------------------------------------------------ the expansion alone
\* generateSemanticKeywords on drawn inputs: every query of up to MaxQueryLen
\* characters of QueryChars, with and without a key, against every kind of
\* answer of the remote model.
MaxQueryLen == 2
QueryChars == {"a", "B", "1", " ", "-"}
ExpandQueries == UNION {[1..n -> QueryChars] : n \in 0..MaxQueryLen}

ExpandAnswers ==
    {[kind |-> "error", value |-> <<>>],
     [kind |-> "empty", value |-> <<>>],
     [kind |-> "other", value |-> <<>>],
     [kind |-> "array", value |-> << <<"a","b">>, <<"n","e","t">> >>]}

InitExpand ==
    /\ rawDomains = NormalizeLines(Text1)
    /\ loading = FALSE
    /\ error = FALSE
    /\ selectedDomains = <<>>
    /\ semanticQuery \in ExpandQueries
    /\ isThinking = FALSE
    /\ filters = DefaultFilters
    /\ pagination = [currentPage |-> 1, itemsPerPage |-> ItemsPerPage]
    /\ hasKey \in BOOLEAN
    /\ fetchPending = FALSE
    /\ requests = <<>>
    /\ readers = <<>>
    /\ rendered = Snapshot
    /\ renderPending = FALSE
    /\ filtersChanged = FALSE
    /\ effectPending = FALSE
    /\ cfgChanged = FALSE
    /\ latestIssued = NoneIssued

\* App.tsx:64-79, 271: Enter on the query of the input.
ExpandSearch ==
    /\ Quiescent
    /\ \/ SearchBlank
       \/ SearchWithoutKey
       \/ \E answer \in ExpandAnswers : SearchIssue(answer)

NextExpand ==
    \/ ExpandSearch
    \/ \E i \in 1..MaxRequests : ExpansionResponse(i)
    \/ Render
    \/ RunPageResetEffect

SpecExpand == InitExpand /\ [][NextExpand]_vars

\* ------------------------------------------------------------ the corpus load alone
\* The automatic load and the manual upload on drawn texts: every text of up
\* to MaxTextLen characters of TextChars.  The fetch settles and a pending
\* render is committed: the browser and React see to both.
MaxTextLen == 3
TextChars == {"A", "b", " ", "\n"}
LoadTexts == UNION {[1..n -> TextChars] : n \in 0..MaxTextLen}

InitLoad ==
    /\ rawDomains = <<>>
    /\ loading = TRUE
    /\ error = FALSE
    /\ selectedDomains = <<>>
    /\ semanticQuery = <<>>
    /\ isThinking = FALSE
    /\ filters = DefaultFilters
    /\ pagination = [currentPage |-> 1, itemsPerPage |-> ItemsPerPage]
    /\ hasKey = FALSE
    /\ fetchPending = TRUE
    /\ requests = <<>>
    /\ readers = <<>>
    /\ rendered = Snapshot
    /\ renderPending = FALSE
    /\ filtersChanged = FALSE
    /\ effectPending = FALSE
    /\ cfgChanged = FALSE
    /\ latestIssued = NoneIssued

\* App.tsx:37-58: the promise of fetchData settles, one way or the other.
FetchSettles == (\E text \in LoadTexts : FetchSucceeds(text)) \/ FetchFails

\* One file is read at a time.
LoadUpload(text) == readers = <<>> /\ HandleFileUpload(text)

NextLoad ==
    \/ FetchSettles
    \/ \E text \in LoadTexts : LoadUpload(text)
    \/ HandleFileUploadNoFile
    \/ ReaderOnload(1)
    \/ Render

SpecLoad == InitLoad /\ [][NextLoad]_vars /\ WF_vars(FetchSettles) /\ WF_vars(Render)

\* ------------------------------------------------------------ the statistics alone
\* The statistics on drawn inputs: every corpus of up to MaxStatsLen domains
\* of StatsDomains, with and without a filter that drops some, rendered once.
MaxStatsLen == 3
StatsDomains ==
    {<<"a">>, <<"a","b">>, <<"9","a">>, <<"-","x">>, <<"b","1","2">>}
StatsCorpora == UNION {[1..n -> StatsDomains] : n \in 0..MaxStatsLen}
StatsConfigs == {DefaultFilters, [DefaultFilters EXCEPT !.hasNumbers = "no"]}

InitStats ==
    /\ rawDomains \in StatsCorpora
    /\ filters \in StatsConfigs
    /\ pagination = [currentPage |-> 1, itemsPerPage |-> ItemsPerPage]
    /\ RestIdle

NextStats == Render

SpecStats == InitStats /\ [][NextStats]_vars

\* ------------------------------------------------------------ claims
RECURSIVE ConcatPages(_, _, _, _)
ConcatPages(filtered, size, from, to) ==
    IF from > to THEN <<>>
    ELSE PaginatedDomains(filtered, [currentPage |-> from, itemsPerPage |-> size])
         \o ConcatPages(filtered, size, from + 1, to)

NoRepetition(set) == \A i, j \in 1..Len(set) : set[i] = set[j] => i = j

\* The six predicates of the filter, on one domain.
SatisfiesAll(d, f) ==
    /\ Len(d) >= f.minLength
    /\ Len(d) <= f.maxLength
    /\ f.extension = "com.br" => EndsWith(d, ComBr)
    /\ f.extension = "others" => ~EndsWith(d, ComBr)
    /\ f.hasNumbers = "yes" => HasDigit(d)
    /\ f.hasNumbers = "no" => ~HasDigit(d)
    /\ f.startsWith /= <<>> => StartsWith(d, f.startsWith)
    /\ f.firstLetter /= <<>> => StartsWith(d, f.firstLetter)
    /\ IF f.semanticKeywords /= <<>>
       THEN \E i \in 1..Len(f.semanticKeywords) : Includes(d, f.semanticKeywords[i])
       ELSE f.searchTerm /= <<>> => Includes(d, f.searchTerm)

\* C1: the filtered sequence of every render is the subsequence of the
\* corpus, in corpus order and with duplicates kept, of the domains that
\* satisfy all six predicates together; inverted length bounds and a prefix
\* that conflicts with the first-letter value give the empty sequence.
C1_FilterIsConjunctiveSubsequence ==
    LET f == rendered.filters
    IN /\ ViewFiltered = SelectSeq(rendered.rawDomains, LAMBDA d : SatisfiesAll(d, f))
       /\ f.minLength > f.maxLength => ViewFiltered = <<>>
       /\ (f.startsWith /= <<>> /\ f.firstLetter /= <<>>
             /\ ~StartsWith(f.startsWith, f.firstLetter)) => ViewFiltered = <<>>

\* C1 witness: keywords and a free-text term are both set, the corpus holds a
\* duplicate, and the render kept some domains and dropped others.
C1_Witness ==
    /\ ~renderPending
    /\ rendered.filters.semanticKeywords /= <<>>
    /\ rendered.filters.searchTerm /= <<>>
    /\ ~NoRepetition(rendered.rawDomains)
    /\ Len(ViewFiltered) > 1
    /\ Len(ViewFiltered) < Len(rendered.rawDomains)
    /\ \E d \in Members(ViewFiltered) : ~Includes(d, rendered.filters.searchTerm)

\* C2: once no expansion request is in flight, the semantic keywords are those
\* of the latest-issued request, whatever the order the responses arrived in.
C2_LatestRequestWins ==
    (requests = <<>> /\ latestIssued.some)
        => filters.semanticKeywords = latestIssued.keywords

\* C3: when a user event can next be handled after an event that changed the
\* FilterConfig, currentPage is 1.
C3_PageResetAfterFilterChange ==
    (Quiescent /\ cfgChanged) => pagination.currentPage = 1

\* C3 witness: a FilterConfig change made on a page above 1 has been rendered
\* and its reset is about to run.
C3_Witness ==
    /\ cfgChanged
    /\ effectPending
    /\ pagination.currentPage > 1

\* C4: no render that sees a new FilterConfig is computed with a currentPage
\* above 1: the reset comes before that render.
C4_ResetBeforeRender ==
    effectPending => rendered.pagination.currentPage = 1

\* C5: after a corpus replacement currentPage is 1.
C5_PageResetAfterCorpusReplacement ==
    [][((\E text \in Texts : FetchSucceeds(text)) \/ (\E i \in 1..MaxReaders : ReaderOnload(i)))
          => pagination'.currentPage = 1]_vars

\* C6: whenever the results and their page controls are rendered, the
\* rendered currentPage is within 1..totalPages.
C6_PageWithinRange ==
    ShowResults =>
        /\ 1 <= rendered.pagination.currentPage
        /\ rendered.pagination.currentPage <= ViewTotalPages

\* C7: the pages 1..totalPages of the rendered filtered sequence, one after
\* the other, are that sequence.
C7_PagesReconstructFiltered ==
    ConcatPages(ViewFiltered, rendered.pagination.itemsPerPage, 1, ViewTotalPages)
        = ViewFiltered

\* C7 witness: a rendered sequence of five domains in pages of two, the
\* last page partial.
C7_Witness ==
    /\ ~renderPending
    /\ Len(ViewFiltered) = 5
    /\ rendered.pagination.itemsPerPage = 2
    /\ ViewTotalPages = 3

\* C8: a currentPage outside 1..totalPages gives the empty page.
C8_OutOfRangePageIsEmpty ==
    (rendered.pagination.currentPage < 1
       \/ rendered.pagination.currentPage > ViewTotalPages) => ViewPage = <<>>

\* C9: a step changes the SelectionSet only if it is a toggle or a confirmed
\* clear; in particular a filter change that removes a selected domain from
\* view leaves it selected.
C9_SelectionChangedOnlyByToggleAndClear ==
    [][selectedDomains' /= selectedDomains =>
          \/ \E d \in Members(ViewPage) : ToggleSelectionClick(d)
          \/ ClearSelection(TRUE)]_vars

\* C9 witness: a domain of the corpus is selected, the rendered filter no
\* longer shows it, and the export still holds it.
C9_Witness ==
    /\ Quiescent
    /\ cfgChanged
    /\ \E d \in Members(selectedDomains) :
          /\ ArrayIncludes(rawDomains, d)
          /\ ~ArrayIncludes(ViewFiltered, d)
          /\ Includes(ExportContent(selectedDomains), d)

\* C10: on every reachable SelectionSet and every domain x, one toggle flips
\* the membership of x and of no other domain, and two toggles of x give the
\* set back.
C10_ToggleIsInvolution ==
    \A x \in Members(rawDomains) \cup Members(selectedDomains) \cup {<<"n","e","w">>} :
        LET once == ToggleSelection(selectedDomains, x)
            twice == ToggleSelection(once, x)
        IN /\ Members(once) = IF x \in Members(selectedDomains)
                              THEN Members(selectedDomains) \ {x}
                              ELSE Members(selectedDomains) \cup {x}
           /\ NoRepetition(once)
           /\ Members(twice) = Members(selectedDomains)
           /\ NoRepetition(twice)

\* C10 witness: two domains are selected after a toggle removed a third.
C10_Witness ==
    /\ Len(selectedDomains) = 2
    /\ Len(rendered.selectedDomains) = 3

\* C11: a clear request whose confirmation is declined leaves the SelectionSet
\* as it was, and a step that takes a selection of two or more domains to the
\* empty selection is a confirmed clear.
C11_ClearOnlyAfterConfirmation ==
    [][/\ ClearSelection(FALSE) => selectedDomains' = selectedDomains
       /\ (Len(selectedDomains) >= 2 /\ selectedDomains' = <<>>) => ClearSelection(TRUE)]_vars

\* C11 witness: a confirmed clear has just emptied a selection of two or more
\* domains that the last render still shows.
C11_Witness ==
    /\ renderPending
    /\ selectedDomains = <<>>
    /\ Len(rendered.selectedDomains) >= 2

\* C12: without a key, and when the expansion call fails, the keywords the
\* search installs are exactly one element, the sanitized original query:
\* lower-cased, every character outside a-z and 0-9 removed.
C12_FallbackIsSanitizedQuery ==
    [][/\ SearchWithoutKey
            => filters'.semanticKeywords = <<Sanitize(rendered.semanticQuery)>>
       /\ \A i \in 1..MaxRequests :
            (ExpansionResponse(i) /\ requests[i].answer.kind = "error")
                => filters'.semanticKeywords = <<Sanitize(requests[i].query)>>]_vars

IsUpper(c) == \E i \in 1..26 : UpperChars[i] = c

\* C13: every element of the corpus is non-empty, neither starts nor ends
\* with white space, and holds no upper-case character, after the automatic
\* load and after a manual upload alike.
C13_CorpusIsNormalized ==
    \A i \in 1..Len(rawDomains) :
        LET d == rawDomains[i]
        IN /\ d /= <<>>
           /\ Head(d) \notin WhiteSpaceChars
           /\ d[Len(d)] \notin WhiteSpaceChars
           /\ \A k \in 1..Len(d) : ~IsUpper(d[k])

\* C13 witness: an upload after a failed load installed two domains, one of
\* them lower-cased from a line of the file.
C13_Witness ==
    /\ rendered.error
    /\ ~error
    /\ rawDomains = << <<"a">>, <<"b">> >>

\* C15: a failed automatic load sets loading to false and the error message
\* and leaves the corpus as it was; once that is rendered the manual upload
\* is offered; the upload's completion installs the uploaded corpus and
\* clears the error; and, whether the load succeeds or fails, loading
\* becomes false and stays false.
C15_LoadFailureRecovers ==
    /\ [][/\ FetchFails => (~loading' /\ error' /\ rawDomains' = rawDomains)
          /\ ReaderOnload(1) =>
                (~error' /\ ~loading' /\ rawDomains' = NormalizeLines(readers[1]))]_vars
    /\ [](fetchPending => rawDomains = <<>>)
    /\ []((error /\ Quiescent) => ShowError)
    /\ <>[](~loading)

\* C15 witness: the load failed, the error panel was rendered, and a manual
\* upload has just installed a corpus and cleared the error.
C15_Witness ==
    /\ ~loading
    /\ ~fetchPending
    /\ rendered.error
    /\ ~error
    /\ rawDomains /= <<>>

RECURSIVE SumValues(_)
SumValues(entries) ==
    IF entries = <<>> THEN 0 ELSE Head(entries).value + SumValues(Tail(entries))

\* C14: the statistics of every render are those of its filtered sequence:
\* total is its length, byLength holds for each length that occurs the number
\* of domains of that length, byLetter for each first character the number of
\* domains that start with it, and the counts of each sum up to total.
C14_StatsOfFilteredSequence ==
    LET st == ViewStats
        f == ViewFiltered
    IN /\ st.total = Len(f)
       /\ SumValues(st.byLength) = st.total
       /\ SumValues(st.byLetter) = st.total
       /\ \A k \in 1..Len(st.byLength) :
             st.byLength[k].value =
                Cardinality({i \in 1..Len(f) : NumberToString(Len(f[i])) = st.byLength[k].name})
       /\ \A k \in 1..Len(st.byLetter) :
             st.byLetter[k].value =
                Cardinality({i \in 1..Len(f) : FirstUpper(f[i]) = st.byLetter[k].name})
       /\ \A i \in 1..Len(f) :
             /\ \E k \in 1..Len(st.byLength) : st.byLength[k].name = NumberToString(Len(f[i]))
             /\ \E k \in 1..Len(st.byLetter) : st.byLetter[k].name = FirstUpper(f[i])

\* C14 witness: a render whose filter dropped a domain and kept two of the
\* same length with different first characters.
C14_Witness ==
    /\ ~renderPending
    /\ Len(rendered.rawDomains) = 3
    /\ Len(ViewFiltered) = 2
    /\ Len(ViewStats.byLength) = 1
    /\ Len(ViewStats.byLetter) = 2

\* totalPages is the least number of pages of itemsPerPage domains that hold
\* the rendered filtered sequence.
IsCeilOfFilteredCount(t) ==
    /\ t * rendered.pagination.itemsPerPage >= Len(ViewFiltered)
    /\ (t - 1) * rendered.pagination.itemsPerPage < Len(ViewFiltered)

\* C16: the totalPages of a render with an empty filtered sequence is 1, not
\* 0; with a non-empty one it is ceil(filteredCount / itemsPerPage).
C16_EmptyTotalPagesIsOne ==
    /\ ViewFiltered = <<>> => ViewTotalPages = 1
    /\ ViewFiltered /= <<>> => IsCeilOfFilteredCount(ViewTotalPages)

\* C16, amended: the totalPages of a render with an empty filtered sequence
\* is 0, and that render shows no results block, hence no page indicator;
\* with a non-empty one it is ceil(filteredCount / itemsPerPage), at least 1.
C16_EmptyTotalPagesIsZeroAndHidden ==
    /\ ViewFiltered = <<>> => (ViewTotalPages = 0 /\ ~ShowResults)
    /\ ViewFiltered /= <<>> =>
          (IsCeilOfFilteredCount(ViewTotalPages) /\ ViewTotalPages >= 1)

\* C16 witness: the empty state is rendered after the load, with totalPages 0.
C16_Witness ==
    /\ ~renderPending
    /\ ShowEmpty
    /\ ViewTotalPages = 0

\* C17: from a clear of the semantic keywords (the "Limpar" of the keyword
\* chips, or "Limpar todos os filtros") until the next search, the keywords
\* are empty: the response of a request that was in flight at the clear does
\* not bring keywords back.
C17_ClearedKeywordsStayEmpty ==
    latestIssued.cleared => filters.semanticKeywords = <<>>

\* C18: isThinking is true exactly when an expansion request is in flight,
\* also when a second search was started with Enter while the first was
\* pending.
C18_ThinkingIffRequestInFlight ==
    isThinking <=> (requests /= <<>>)

\* C19: every domain of the SelectionSet is an element of the current corpus.
C19_SelectionWithinCorpus ==
    \A d \in Members(selectedDomains) : ArrayIncludes(rawDomains, d)

====
